---- MODULE Spec2Model ----
(***************************************************************************)
(* QLogger: a registry (QLoggerManager) of named file sinks                *)
(* (QLoggerWriter).  The model follows src/QLogger/qlogger.cpp and         *)
(* src/QLogger/qlogger.h.                                                  *)
(*                                                                         *)
(* Seven specifications share the variables:                               *)
(*   SpecSink    one QLoggerWriter used directly (setters and write)       *)
(*   SpecRotate  one QLoggerWriter with a size limit, several writes       *)
(*   Spec        the registry used from one thread (add, remove, log, ...) *)
(*   SpecConc    two threads calling the registry from any state           *)
(*   SpecLog     two threads logging on registered channels, step by step  *)
(*   SpecHeld    two threads on a registry that exists: log against add,   *)
(*               remove and logWriter                                      *)
(*   SpecFirstUse  two threads registering and logging from the first use  *)
(***************************************************************************)
EXTENDS Integers, Sequences, FiniteSets, TLC

VARIABLES
    m_instance,   \* QLoggerManager::m_instance: 0 (null) or the id of a manager
    managers,     \* live QLoggerManager objects: id -> m_loggers (name -> writer id, 0 = null)
    constructed,  \* number of QLoggerManager objects constructed so far
    bound,        \* ghost: name -> the path and level of the add() that bound it
    writers,      \* live QLoggerWriter objects: id -> record of its members
    allocated,    \* number of QLoggerWriter objects constructed so far
    files,        \* the file system: path -> sequence of lines, and an unterminated tail
    now,          \* the wall clock, in seconds after ClockOrigin
    writes,       \* number of write() calls that reached the file system so far
    last,         \* ghost: the last operation, its arguments and what it saw
    pc,           \* SpecConc: thread -> where it stands in its call
    frame,        \* SpecConc: thread -> the arguments and locals of its call
    mutex,        \* QLoggerManager::mutex: its owner and how many times it holds it
    crashed,      \* SpecConc: a thread used a destroyed object and the process died
    calls,        \* ghost: the calls in the order they were issued
    acquired,     \* ghost: the log() calls in the order they took the mutex
    appends       \* ghost: the lines in the order they were appended

sinkVars == <<writers, allocated>>
regVars  == <<m_instance, managers, constructed, bound>>
envVars  == <<files, now, writes>>
thrVars  == <<pc, frame, mutex, crashed, calls, acquired, appends>>
vars     == <<m_instance, managers, constructed, bound, writers, allocated, files, now, writes, last,
              pc, frame, mutex, crashed, calls, acquired, appends>>

(***************************************************************************)
(* Bounds of the model.                                                    *)
(***************************************************************************)
MaxClock   == 1    \* the clock ticks at most this many seconds
MaxSinkWrites == 1 \* SpecSink: write() calls that pass the level and path checks
MaxRotWrites == 3  \* SpecRotate: write() calls that pass the level and path checks
MaxWriters == 2    \* Spec: QLoggerWriter objects constructed by add()
MaxLogs    == 1    \* Spec: log() calls that reach the file system
MaxRaceLogs == 2   \* SpecConc: log() calls issued by all threads together
MaxRegCalls == 1   \* SpecConc: add() and remove() calls issued by all threads together
MaxLogCalls == 4   \* SpecLog: log() calls issued by all threads together
MaxHeldCalls == 2  \* SpecHeld: calls issued by all threads together
MaxFirstAdds == 2  \* SpecFirstUse: add() calls issued by all threads together
MaxFirstLogs == 1  \* SpecFirstUse: log() calls issued by all threads together

(***************************************************************************)
(* LogLevel (qlogger.h:19).  A LogLevel is an int-backed enum, so a caller *)
(* can pass a value outside the six enumerators.                           *)
(***************************************************************************)
TraceLevel == 0
DebugLevel == 1
InfoLevel  == 2
WarnLevel  == 3
ErrorLevel == 4
FatalLevel == 5
OutOfRangeLevel == FatalLevel + 1

LogLevel == {TraceLevel, DebugLevel, InfoLevel, WarnLevel, ErrorLevel, FatalLevel}
LevelValues == LogLevel \cup {OutOfRangeLevel}

DATE_FORMAT == "yyyy-MM-dd-hh-mm-ss"
ROTATE_FORMAT == "ddMMyyyyhhmmss"
FormatValues == {DATE_FORMAT, "hh:mm:ss"}

Messages == {"x", "yy"}
\* the values Spec draws from
Names == {"default", "net"}
RegLevels == {DebugLevel, WarnLevel}
LogLevels == {InfoLevel, ErrorLevel}
RegMessages == {"x"}
RegLimits == {0, 10}
\* the values SpecRotate draws from
RotLimits == {-1, 0, 10, 40}
RotLevels == {TraceLevel, InfoLevel}
\* the values SpecSink draws from
SinkMessages == {"x"}
SinkLimits == {0, 10}

(***************************************************************************)
(* Paths.  A QString path is kept as its directory and its file name split *)
(* at the dots, so that QFileInfo's baseName / completeSuffix can be       *)
(* computed.  The empty QString is EmptyPath.                              *)
(***************************************************************************)
EmptyPath == [dir |-> "", name |-> <<>>]
AppLog    == [dir |-> "logs", name |-> <<"app", "log">>]
DatedLog  == [dir |-> "logs", name |-> <<"app", "2024", "log">>]
LostLog   == [dir |-> "missing", name |-> <<"app", "log">>]
SinkPaths == {EmptyPath, AppLog, LostLog}
RotPaths == {AppLog, DatedLog}
RegPaths == {AppLog, DatedLog}

\* directories that exist (and are writable) in the environment
ExistingDirs == {"logs"}

RECURSIVE Join(_)
Join(parts) ==
    IF parts = <<>> THEN ""
    ELSE IF Len(parts) = 1 THEN parts[1]
    ELSE parts[1] \o "." \o Join(Tail(parts))

\* QFileInfo::fileName
fileName(path) == Join(path.name)
\* QFileInfo::baseName: the file name up to (not including) the first '.'
baseName(path) == IF path.name = <<>> THEN "" ELSE Head(path.name)
\* QFileInfo::completeSuffix: everything after the first '.'
completeSuffix(path) == IF path.name = <<>> THEN "" ELSE Join(Tail(path.name))

(***************************************************************************)
(* QDateTime::currentDateTime().toString(format)                           *)
(***************************************************************************)
ClockOrigin == [year |-> 2024, month |-> 1, day |-> 5, hour |-> 13, minute |-> 45, second |-> 59]

currentDateTime(t) ==
    LET s == ClockOrigin.second + t
        m == ClockOrigin.minute + (s \div 60)
        h == ClockOrigin.hour + (m \div 60)
    IN [year |-> ClockOrigin.year, month |-> ClockOrigin.month, day |-> ClockOrigin.day,
        hour |-> h % 24, minute |-> m % 60, second |-> s % 60]

Pad2(n) == IF n < 10 THEN "0" \o ToString(n) ELSE ToString(n)
Pad4(n) == IF n < 10 THEN "000" \o ToString(n)
           ELSE IF n < 100 THEN "00" \o ToString(n)
           ELSE IF n < 1000 THEN "0" \o ToString(n)
           ELSE ToString(n)

toString(dt, format) ==
    CASE format = "yyyy-MM-dd-hh-mm-ss" ->
            Pad4(dt.year) \o "-" \o Pad2(dt.month) \o "-" \o Pad2(dt.day) \o "-"
            \o Pad2(dt.hour) \o "-" \o Pad2(dt.minute) \o "-" \o Pad2(dt.second)
      [] format = "ddMMyyyyhhmmss" ->
            Pad2(dt.day) \o Pad2(dt.month) \o Pad4(dt.year)
            \o Pad2(dt.hour) \o Pad2(dt.minute) \o Pad2(dt.second)
      [] format = "hh:mm:ss" ->
            Pad2(dt.hour) \o ":" \o Pad2(dt.minute) \o ":" \o Pad2(dt.second)
      [] OTHER -> format

(***************************************************************************)
(* The file system.  A file is the lines already terminated by a newline   *)
(* and the text written after the last newline.                            *)
(***************************************************************************)
EmptyFile == [lines |-> <<>>, tail |-> ""]

exists(f, path) == path \in DOMAIN f

RECURSIVE LinesSize(_)
LinesSize(ls) == IF ls = <<>> THEN 0 ELSE Len(Head(ls)) + 1 + LinesSize(Tail(ls))

\* QFileInfo::size: 0 when the file does not exist
size(f, path) == IF exists(f, path) THEN LinesSize(f[path].lines) + Len(f[path].tail) ELSE 0

\* QFile::rename: fails when the source is missing or the new name is taken
renameSucceeds(f, from, to) ==
    /\ exists(f, from)
    /\ ~exists(f, to)
    /\ to.dir \in ExistingDirs

\* faulty variant: the rename replaces a file that has the new name
renameOverwriting(f, from, to) ==
    IF exists(f, from) /\ to.dir \in ExistingDirs
    THEN [p \in (DOMAIN f \ {from}) \cup {to} |-> IF p = to THEN f[from] ELSE f[p]]
    ELSE f

rename(f, from, to) ==
    IF renameSucceeds(f, from, to)
    THEN [p \in (DOMAIN f \ {from}) \cup {to} |-> IF p = to THEN f[from] ELSE f[p]]
    ELSE f

\* faulty variant: the file is created whatever its directory
openSucceedsAnywhere(f, path) == TRUE

\* QFile::open(Append | Text): creates the file when it is absent
openSucceeds(f, path) == path.dir \in ExistingDirs

open(f, path) ==
    IF exists(f, path) THEN f
    ELSE [p \in DOMAIN f \cup {path} |-> IF p = path THEN EmptyFile ELSE f[p]]

\* flux << text
writeText(f, path, text) == [f EXCEPT ![path].tail = @ \o text]
\* flux << endl
writeEndl(f, path) == [f EXCEPT ![path].lines = Append(@, f[path].tail), ![path].tail = ""]

(***************************************************************************)
(* QLoggerWriter                                                           *)
(***************************************************************************)
\* QLoggerWriter::QLoggerWriter(QObject *parent)
QLoggerWriterDefault ==
    [m_filePath |-> EmptyPath, m_fileSizeLimit |-> 0, m_saveDatetime |-> TRUE,
     m_datetimeFormat |-> DATE_FORMAT, m_level |-> DebugLevel]

\* QLoggerWriter::QLoggerWriter(const QString &filePath, const LogLevel &level, QObject *parent)
QLoggerWriter(filePath, level) ==
    [QLoggerWriterDefault EXCEPT !.m_level = level, !.m_filePath = filePath]

levelToString(level) ==
    CASE level = TraceLevel -> "trace"
      [] level = DebugLevel -> "debug"
      [] level = InfoLevel  -> "info"
      [] level = WarnLevel  -> "warning"
      [] level = ErrorLevel -> "error"
      [] level = FatalLevel -> "fatal"
      [] OTHER -> "INVALID"

setLevel(w, level) == [w EXCEPT !.m_level = level]
setFilePath(w, filePath) == [w EXCEPT !.m_filePath = filePath]
setFileSizeLimit(w, limit) == [w EXCEPT !.m_fileSizeLimit = limit]
setDatetimeFormat(w, format) == [w EXCEPT !.m_datetimeFormat = format]
\* declared in qlogger.h, not defined in qlogger.cpp
setSaveDatetime(w, save) == [w EXCEPT !.m_saveDatetime = save]

\* faulty variant: the name is split at its last dot (QFileInfo::completeBaseName / suffix)
rotatedPathAtLastDot(path, t) ==
    LET n == Len(path.name)
        front == IF n > 1 THEN SubSeq(path.name, 1, n - 1) ELSE path.name
        stamped == Join(front) \o "_" \o toString(currentDateTime(t), ROTATE_FORMAT)
        rest == IF n > 1 THEN <<path.name[n]>> ELSE <<"">>
    IN [dir |-> path.dir, name |-> <<stamped>> \o rest]

\* baseName + '_' + currentDateTime().toString("ddMMyyyyhhmmss") + '.' + suffix,
\* in info.absoluteDir(); the new name is kept split at its dots
rotatedPath(path, t) ==
    LET stamped == baseName(path) \o "_" \o toString(currentDateTime(t), ROTATE_FORMAT)
        rest == IF Len(path.name) > 1 THEN Tail(path.name) ELSE <<completeSuffix(path)>>
    IN [dir |-> path.dir, name |-> <<stamped>> \o rest]

\* faulty variant: a file exactly at the limit is not rotated
limitExceeded(w, f) ==
    /\ ~(w.m_fileSizeLimit <= 0)
    /\ size(f, w.m_filePath) > w.m_fileSizeLimit

\* faulty variant: a limit of zero or less is a limit like any other
limitReachedWhateverLimit(w, f) == size(f, w.m_filePath) >= w.m_fileSizeLimit

\* faulty variant: the file is rotated only at twice the limit
limitReachedTwice(w, f) ==
    /\ ~(w.m_fileSizeLimit <= 0)
    /\ size(f, w.m_filePath) >= 2 * w.m_fileSizeLimit

\* the test of checkFileSizeLimit: the limit is set and the file has reached it
limitReached(w, f) ==
    /\ ~(w.m_fileSizeLimit <= 0)
    /\ size(f, w.m_filePath) >= w.m_fileSizeLimit

checkFileSizeLimit(w, f, t) ==
    IF limitReached(w, f) THEN rename(f, w.m_filePath, rotatedPath(w.m_filePath, t)) ELSE f

\* faulty variant: the line names the sink's minimum level
formatLogOfSinkLevel(w, message, level, t) ==
    LET log == levelToString(w.m_level) \o " : " \o message
    IN IF w.m_saveDatetime
       THEN toString(currentDateTime(t), DATE_FORMAT) \o " : " \o log
       ELSE log

\* the line write() builds
formatLog(w, message, level, t) ==
    LET log == levelToString(level) \o " : " \o message
    IN IF w.m_saveDatetime
       THEN toString(currentDateTime(t), DATE_FORMAT) \o " : " \o log
       ELSE log

\* faulty variant: the test drops a message exactly at the minimum level
filteredAtMinimum(w, level) == w.m_level >= level

\* the level test of write(): TRUE when the message is dropped
filtered(w, level) == w.m_level > level

\* faulty variant: the line is written without endl
appendLogWithoutEndl(w, f, log) ==
    IF openSucceeds(f, w.m_filePath)
    THEN writeText(open(f, w.m_filePath), w.m_filePath, log)
    ELSE f

\* QFile file(m_filePath); open(Append | Text); flux << log << endl; close
appendLog(w, f, log) ==
    IF openSucceeds(f, w.m_filePath)
    THEN writeEndl(writeText(open(f, w.m_filePath), w.m_filePath, log), w.m_filePath)
    ELSE f

\* faulty variant: the size is checked before the level
writeCheckingSizeFirst(w, f, message, level, t1, t2) ==
    IF w.m_filePath = EmptyPath THEN f
    ELSE IF filtered(w, level) THEN checkFileSizeLimit(w, f, t1)
    ELSE appendLog(w, checkFileSizeLimit(w, f, t1), formatLog(w, message, level, t2))

\* faulty variant: the message is dropped when the rename fails
writeGivingUp(w, f, message, level, t1, t2) ==
    IF filtered(w, level) THEN f
    ELSE IF w.m_filePath = EmptyPath THEN f
    ELSE IF limitReached(w, f) /\ ~renameSucceeds(f, w.m_filePath, rotatedPath(w.m_filePath, t1)) THEN f
    ELSE appendLog(w, checkFileSizeLimit(w, f, t1), formatLog(w, message, level, t2))

\* QLoggerWriter::write: the file system it leaves.  t1 is the clock read by
\* checkFileSizeLimit, t2 the clock read for the line's timestamp.
write(w, f, message, level, t1, t2) ==
    IF filtered(w, level) THEN f
    ELSE IF w.m_filePath = EmptyPath THEN f
    ELSE appendLog(w, checkFileSizeLimit(w, f, t1), formatLog(w, message, level, t2))

\* TRUE when write() gets past its two early returns
reachesFile(w, level) == ~filtered(w, level) /\ w.m_filePath # EmptyPath

(***************************************************************************)
(* SpecSink: one QLoggerWriter, constructed by either constructor, used    *)
(* directly through its public methods.                                    *)
(***************************************************************************)
NoFiles == [p \in {} |-> EmptyFile]
\* the log directory at start: empty, or holding the file of an earlier run
OldRun == (AppLog :> [lines |-> <<"error : x">>, tail |-> ""])
InitialFiles == {NoFiles, OldRun}

NoManagers == [i \in {} |-> 0]

Threads == {"t1", "t2"}
\* QMutex QLoggerManager::mutex(QMutex::Recursive), unlocked
Unlocked == [owner |-> "none", count |-> 0]
NoCall == [op |-> "none"]
\* no thread has called anything
ThreadsIdle ==
    /\ pc = [t \in Threads |-> "idle"]
    /\ frame = [t \in Threads |-> NoCall]
    /\ mutex = Unlocked
    /\ crashed = FALSE
    /\ calls = <<>>
    /\ acquired = <<>>
    /\ appends = <<>>
NoBindings == [n \in {} |-> 0]

Sink == 1

SinkInit ==
    /\ m_instance = 0
    /\ managers = NoManagers
    /\ constructed = 0
    /\ bound = NoBindings
    /\ writers \in {[i \in {Sink} |-> QLoggerWriterDefault]}
                   \cup {[i \in {Sink} |-> QLoggerWriter(p, l)] : p \in SinkPaths, l \in LevelValues}
    /\ allocated = 1
    /\ files \in InitialFiles
    /\ now = 0
    /\ writes = 0
    /\ last = [op |-> "init"]
    /\ ThreadsIdle

Running == writes < MaxSinkWrites

SinkSetLevel ==
    /\ UNCHANGED thrVars
    /\ Running
    /\ \E level \in LevelValues :
          writers' = [writers EXCEPT ![Sink] = setLevel(@, level)]
    /\ last' = [op |-> "setLevel"]
    /\ UNCHANGED <<regVars, allocated, envVars>>

SinkSetFilePath ==
    /\ UNCHANGED thrVars
    /\ Running
    /\ \E filePath \in SinkPaths :
          writers' = [writers EXCEPT ![Sink] = setFilePath(@, filePath)]
    /\ last' = [op |-> "setFilePath"]
    /\ UNCHANGED <<regVars, allocated, envVars>>

SinkSetFileSizeLimit ==
    /\ UNCHANGED thrVars
    /\ Running
    /\ \E limit \in SinkLimits :
          writers' = [writers EXCEPT ![Sink] = setFileSizeLimit(@, limit)]
    /\ last' = [op |-> "setFileSizeLimit"]
    /\ UNCHANGED <<regVars, allocated, envVars>>

SinkSetDatetimeFormat ==
    /\ UNCHANGED thrVars
    /\ Running
    /\ \E format \in FormatValues :
          /\ writers' = [writers EXCEPT ![Sink] = setDatetimeFormat(@, format)]
          /\ last' = [op |-> "setDatetimeFormat", format |-> format]
    /\ UNCHANGED <<regVars, allocated, envVars>>

SinkSetSaveDatetime ==
    /\ UNCHANGED thrVars
    /\ Running
    /\ \E save \in BOOLEAN :
          writers' = [writers EXCEPT ![Sink] = setSaveDatetime(@, save)]
    /\ last' = [op |-> "setSaveDatetime"]
    /\ UNCHANGED <<regVars, allocated, envVars>>

SinkWrite ==
    /\ UNCHANGED thrVars
    /\ Running
    /\ \E message \in SinkMessages, level \in LevelValues :
          LET w == writers[Sink] IN
          /\ files' = write(w, files, message, level, now, now)
          /\ now' = now
          /\ writes' = IF reachesFile(w, level) THEN writes + 1 ELSE writes
          /\ last' = [op |-> "write", id |-> Sink, message |-> message, level |-> level,
                      w |-> w, pre |-> files, t1 |-> now, t2 |-> now']
    /\ UNCHANGED <<regVars, sinkVars>>

Tick ==
    /\ UNCHANGED thrVars
    /\ Running
    /\ now < MaxClock
    /\ now' = now + 1
    /\ last' = [op |-> "tick"]
    /\ UNCHANGED <<regVars, sinkVars, files, writes>>

SinkNext ==
    \/ SinkSetLevel
    \/ SinkSetFilePath
    \/ SinkSetFileSizeLimit
    \/ SinkSetDatetimeFormat
    \/ SinkSetSaveDatetime
    \/ SinkWrite
    \/ Tick

SpecSink == SinkInit /\ [][SinkNext]_vars

(***************************************************************************)
(* SpecRotate: one QLoggerWriter constructed with a path and the default   *)
(* level, its size limit set and several messages written; the clock may   *)
(* tick between the two readings a write() makes.                          *)
(***************************************************************************)
RotInit ==
    /\ m_instance = 0
    /\ managers = NoManagers
    /\ constructed = 0
    /\ bound = NoBindings
    /\ writers \in {[i \in {Sink} |-> QLoggerWriter(p, DebugLevel)] : p \in RotPaths}
    /\ allocated = 1
    /\ files \in {NoFiles} \cup {[p \in {q} |-> OldRun[AppLog]] : q \in RotPaths}
    /\ now = 0
    /\ writes = 0
    /\ last = [op |-> "init"]
    /\ ThreadsIdle

RotRunning == writes < MaxRotWrites

RotSetFileSizeLimit ==
    /\ UNCHANGED thrVars
    /\ RotRunning
    /\ \E limit \in RotLimits :
          writers' = [writers EXCEPT ![Sink] = setFileSizeLimit(@, limit)]
    /\ last' = [op |-> "setFileSizeLimit"]
    /\ UNCHANGED <<regVars, allocated, envVars>>

ClockAfter(t) == {u \in t..(t + 1) : u <= MaxClock}

RotWrite ==
    /\ UNCHANGED thrVars
    /\ RotRunning
    /\ \E message \in Messages, level \in RotLevels, t2 \in ClockAfter(now) :
          LET w == writers[Sink] IN
          /\ files' = write(w, files, message, level, now, t2)
          /\ now' = IF reachesFile(w, level) THEN t2 ELSE now
          /\ writes' = IF reachesFile(w, level) THEN writes + 1 ELSE writes
          /\ last' = [op |-> "write", id |-> Sink, message |-> message, level |-> level,
                      w |-> w, pre |-> files, t1 |-> now, t2 |-> now']
    /\ UNCHANGED <<regVars, sinkVars>>

RotTick ==
    /\ UNCHANGED thrVars
    /\ RotRunning
    /\ now < MaxClock
    /\ now' = now + 1
    /\ last' = [op |-> "tick"]
    /\ UNCHANGED <<regVars, sinkVars, files, writes>>

RotNext ==
    \/ RotSetFileSizeLimit
    \/ RotWrite
    \/ RotTick

SpecRotate == RotInit /\ [][RotNext]_vars

(***************************************************************************)
(* QLoggerManager                                                          *)
(***************************************************************************)
NoLoggers == [n \in {} |-> 0]

\* the registry: the static m_instance, the live managers, the number constructed
Registry == [m_instance |-> m_instance, managers |-> managers, constructed |-> constructed]

\* m_instance.reset(new QLoggerManager): the manager held before is destroyed
resetInstance(r) ==
    LET id == r.constructed + 1
    IN [m_instance |-> id,
        managers |-> [i \in {id} |-> NoLoggers],
        constructed |-> id]

\* QLoggerManager::getInstancePointer, run by one thread without interruption
getInstancePointer(r) == IF r.m_instance = 0 THEN resetInstance(r) ELSE r

\* QMap::operator[]: inserts a default-constructed (null) value for a missing key
index(m, name) ==
    IF name \in DOMAIN m THEN m
    ELSE [n \in DOMAIN m \cup {name} |-> IF n = name THEN 0 ELSE m[n]]

\* QMap::insert
insert(m, name, id) == [n \in DOMAIN m \cup {name} |-> IF n = name THEN id ELSE m[n]]

\* faulty variant: the map is cleared
removeEveryKey(m, name) == NoLoggers

\* QMap::remove
removeKey(m, name) == [n \in DOMAIN m \ {name} |-> m[n]]

\* QMap::value(name).data(): null for a missing key
value(m, name) == IF name \in DOMAIN m THEN m[name] ELSE 0

\* faulty variant: the lookup uses operator[] and leaves a null entry behind
mapAfterIndex(m, name) == index(m, name)

\* the map after m_loggers.value(name): value() is const
mapAfterValue(m, name) == m

\* faulty variant: add() inserts whether or not the name is taken
addTestNever(m, name) == FALSE

\* the test of add(): if (m_loggers[name])
addTest(m, name) == index(m, name)[name] # 0

\* QLoggerManager::add on the map m: the map it leaves, id being the new writer
add(m, name, id) == IF addTest(m, name) THEN index(m, name) ELSE insert(index(m, name), name, id)

\* the writers left when the map drops its reference to the writer of name
release(ws, m, name) == [i \in DOMAIN ws \ {value(m, name)} |-> ws[i]]

(***************************************************************************)
(* Spec: the registry called from one thread.                              *)
(***************************************************************************)
NoWriters == [i \in {} |-> QLoggerWriterDefault]

Init ==
    /\ m_instance = 0
    /\ managers = NoManagers
    /\ constructed = 0
    /\ bound = NoBindings
    /\ writers = NoWriters
    /\ allocated = 0
    /\ files \in InitialFiles
    /\ now = 0
    /\ writes = 0
    /\ last = [op |-> "init"]
    /\ ThreadsIdle

RegRunning == writes < MaxLogs

\* the name -> writer map of the current manager (none before the first use)
Loggers(r) == IF r.m_instance = 0 THEN NoLoggers ELSE r.managers[r.m_instance]

SetRegistry(r) ==
    /\ m_instance' = r.m_instance
    /\ managers' = r.managers
    /\ constructed' = r.constructed

\* QLoggerManager::getInstance().add(filePath, name, level)
Add ==
    /\ UNCHANGED thrVars
    /\ RegRunning
    /\ \E filePath \in RegPaths, name \in Names, level \in RegLevels :
          LET r == getInstancePointer(Registry)
              m == r.managers[r.m_instance]
              taken == addTest(m, name)
              id == allocated + 1
          IN /\ taken \/ allocated < MaxWriters
             /\ SetRegistry([r EXCEPT !.managers[r.m_instance] = add(m, name, id)])
             /\ writers' = IF taken THEN writers
                           ELSE [i \in DOMAIN writers \cup {id} |->
                                    IF i = id THEN QLoggerWriter(filePath, level) ELSE writers[i]]
             /\ allocated' = IF taken THEN allocated ELSE id
             /\ bound' = IF name \in DOMAIN bound THEN bound
                         ELSE [n \in DOMAIN bound \cup {name} |->
                                  IF n = name THEN [filePath |-> filePath, level |-> level]
                                  ELSE bound[n]]
             /\ last' = [op |-> "add", name |-> name, filePath |-> filePath, level |-> level,
                         taken |-> name \in DOMAIN bound,
                         loggers |-> Loggers(Registry), writers |-> writers]
    /\ UNCHANGED envVars

\* QLoggerManager::getInstance().remove(name)
Remove ==
    /\ UNCHANGED thrVars
    /\ RegRunning
    /\ \E name \in Names :
          LET r == getInstancePointer(Registry)
              m == r.managers[r.m_instance]
          IN /\ SetRegistry([r EXCEPT !.managers[r.m_instance] = removeKey(m, name)])
             /\ writers' = release(writers, m, name)
             /\ bound' = [n \in DOMAIN bound \ {name} |-> bound[n]]
             /\ last' = [op |-> "remove", name |-> name, pre |-> files,
                         loggers |-> Loggers(Registry), writers |-> writers]
    /\ UNCHANGED <<allocated, envVars>>

\* QLoggerManager::getInstance().logWriter(name)
LogWriter ==
    /\ UNCHANGED thrVars
    /\ RegRunning
    /\ \E name \in Names :
          LET r == getInstancePointer(Registry)
              m == r.managers[r.m_instance]
          IN /\ SetRegistry([r EXCEPT !.managers[r.m_instance] = mapAfterValue(m, name)])
             /\ last' = [op |-> "logWriter", name |-> name, id |-> value(m, name)]
    /\ UNCHANGED <<bound, sinkVars, envVars>>

\* QLogger::log(name, message, level) -> QLoggerManager::log -> privateLog
Log ==
    /\ UNCHANGED thrVars
    /\ RegRunning
    /\ \E name \in Names, message \in RegMessages, level \in LogLevels :
          LET r == getInstancePointer(Registry)
              m == r.managers[r.m_instance]
              id == value(m, name)
              hit == id # 0 /\ reachesFile(writers[id], level)
          IN /\ SetRegistry([r EXCEPT !.managers[r.m_instance] = mapAfterValue(m, name)])
             /\ files' = IF id # 0 THEN write(writers[id], files, message, level, now, now)
                         ELSE files
             /\ writes' = IF hit THEN writes + 1 ELSE writes
             /\ last' = [op |-> "log", name |-> name, message |-> message, level |-> level,
                         id |-> id, w |-> IF id # 0 THEN writers[id] ELSE QLoggerWriterDefault,
                         pre |-> files, t1 |-> now, t2 |-> now,
                         loggers |-> Loggers(Registry), writers |-> writers]
    /\ UNCHANGED <<bound, sinkVars, now>>

\* QLogger::setLimitSize(size, name) -> QLoggerManager::setLimitSize
SetLimitSize ==
    /\ UNCHANGED thrVars
    /\ RegRunning
    /\ \E limit \in RegLimits, name \in Names :
          LET r == getInstancePointer(Registry)
              m == r.managers[r.m_instance]
              id == value(m, name)
          IN /\ SetRegistry([r EXCEPT !.managers[r.m_instance] = mapAfterValue(m, name)])
             /\ writers' = IF id # 0 THEN [writers EXCEPT ![id] = setFileSizeLimit(@, limit)]
                           ELSE writers
             /\ last' = [op |-> "setLimitSize", name |-> name, limit |-> limit, id |-> id,
                         pre |-> files, loggers |-> Loggers(Registry), writers |-> writers]
    /\ UNCHANGED <<bound, allocated, envVars>>

Next ==
    \/ Add
    \/ Remove
    \/ LogWriter
    \/ Log
    \/ SetLimitSize

Spec == Init /\ [][Next]_vars

(***************************************************************************)
(* SpecConc: two threads call add(), remove(), logWriter() and log().      *)
(* A call advances in steps; a step is what the thread does between two    *)
(* points where the other thread can observe or change shared state.       *)
(*   log:          lock, gi [, gi_reset], lookup, write1, write2           *)
(*   add, remove, logWriter:  gi [, gi_reset], lock, body                  *)
(* gi is getInstancePointer, which add() and remove() callers run before   *)
(* they take QLoggerManager::mutex and log() runs while holding it.        *)
(***************************************************************************)
\* faulty variant: the mutex excludes nobody
canLockAlways(mx, t) == TRUE

\* QMutexLocker locker(&QLoggerManager::mutex) can proceed: the mutex is recursive
canLock(mx, t) == mx.owner = "none" \/ mx.owner = t

lock(mx, t) == [owner |-> t, count |-> mx.count + 1]
\* ~QMutexLocker
unlock(mx) == IF mx.count <= 1 THEN Unlocked ELSE [mx EXCEPT !.count = @ - 1]

\* SpecConc gives each channel its own file
PathOf(name) == IF name = "default" THEN AppLog ELSE DatedLog

\* the state a main thread leaves after add("logs/app.log", "default") and
\* add("logs/app.2024.log", "net")
Registered ==
    /\ m_instance = 1
    /\ managers = [i \in {1} |-> [n \in Names |-> IF n = "default" THEN 1 ELSE 2]]
    /\ constructed = 1
    /\ bound = [n \in Names |-> [filePath |-> PathOf(n), level |-> DebugLevel]]
    /\ writers = [i \in {1, 2} |-> QLoggerWriter(PathOf(IF i = 1 THEN "default" ELSE "net"), DebugLevel)]
    /\ allocated = 2

Fresh ==
    /\ m_instance = 0
    /\ managers = NoManagers
    /\ constructed = 0
    /\ bound = NoBindings
    /\ writers = NoWriters
    /\ allocated = 0

ConcInit ==
    /\ Fresh \/ Registered
    /\ files = NoFiles
    /\ now = 0
    /\ writes = 0
    /\ last = [op |-> "init"]
    /\ ThreadsIdle

\* the calls on the registry that SpecConc counts together
RegOps == {"add", "remove", "logWriter"}

Issued(ops) == Cardinality({i \in 1..Len(calls) : calls[i].op \in ops})

CanIssue(t, ops, most) == pc[t] = "idle" /\ ~crashed /\ Issued(ops) < most

Issue(t, f, first) ==
    /\ frame' = [frame EXCEPT ![t] = f]
    /\ pc' = [pc EXCEPT ![t] = first]
    /\ calls' = Append(calls, [thread |-> t, op |-> f.op, name |-> f.name])

\* QLogger::log(name, message, level)
IssueLogUpTo(t, most) ==
    /\ CanIssue(t, {"log"}, most)
    /\ \E name \in Names, message \in RegMessages :
          Issue(t, [op |-> "log", call |-> Len(calls) + 1, name |-> name, message |-> message,
                    level |-> InfoLevel, filePath |-> EmptyPath, inst |-> 0, ptr |-> 0], "lock")
    /\ UNCHANGED <<regVars, sinkVars, envVars, last, mutex, crashed, acquired, appends>>

IssueLog(t) == IssueLogUpTo(t, MaxRaceLogs)

\* QLoggerManager::getInstance().add(filePath, name, level)
IssueAdd(t) ==
    /\ CanIssue(t, RegOps, MaxRegCalls)
    /\ \E name \in Names :
          Issue(t, [op |-> "add", call |-> Len(calls) + 1, name |-> name, message |-> "",
                    level |-> DebugLevel, filePath |-> PathOf(name), inst |-> 0, ptr |-> 0], "gi")
    /\ UNCHANGED <<regVars, sinkVars, envVars, last, mutex, crashed, acquired, appends>>

\* QLoggerManager::getInstance().remove(name)
IssueRemove(t) ==
    /\ CanIssue(t, RegOps, MaxRegCalls)
    /\ \E name \in Names :
          Issue(t, [op |-> "remove", call |-> Len(calls) + 1, name |-> name, message |-> "",
                    level |-> DebugLevel, filePath |-> EmptyPath, inst |-> 0, ptr |-> 0], "gi")
    /\ UNCHANGED <<regVars, sinkVars, envVars, last, mutex, crashed, acquired, appends>>

\* QLoggerManager::getInstance().logWriter(name)
IssueLogWriter(t) ==
    /\ CanIssue(t, RegOps, MaxRegCalls)
    /\ \E name \in Names :
          Issue(t, [op |-> "logWriter", call |-> Len(calls) + 1, name |-> name, message |-> "",
                    level |-> DebugLevel, filePath |-> EmptyPath, inst |-> 0, ptr |-> 0], "gi")
    /\ UNCHANGED <<regVars, sinkVars, envVars, last, mutex, crashed, acquired, appends>>

\* QMutexLocker locker(&QLoggerManager::mutex) of privateLog, add, remove and logWriter
Lock(t) ==
    /\ pc[t] = "lock"
    /\ ~crashed
    /\ canLock(mutex, t)
    /\ mutex' = lock(mutex, t)
    /\ acquired' = IF frame[t].op = "log" THEN Append(acquired, frame[t].call) ELSE acquired
    /\ pc' = [pc EXCEPT ![t] = IF frame[t].op = "log" THEN "gi" ELSE "body"]
    /\ UNCHANGED <<regVars, sinkVars, envVars, last, frame, crashed, calls, appends>>

AfterInstance(t) == IF frame[t].op = "log" THEN "lookup" ELSE "lock"

\* getInstancePointer: the tests of m_instance (the QMutex it locks is a local
\* of the call, so it never blocks); with an instance, return m_instance.data()
GetInstance(t) ==
    /\ pc[t] = "gi"
    /\ ~crashed
    /\ IF m_instance = 0
       THEN /\ pc' = [pc EXCEPT ![t] = "gi_reset"]
            /\ UNCHANGED frame
       ELSE /\ pc' = [pc EXCEPT ![t] = AfterInstance(t)]
            /\ frame' = [frame EXCEPT ![t].inst = m_instance]
    /\ UNCHANGED <<regVars, sinkVars, envVars, last, mutex, crashed, calls, acquired, appends>>

\* the writers no manager refers to any more
unreferenced(ws, ms) == {i \in DOMAIN ws : \A k \in DOMAIN ms : \A n \in DOMAIN ms[k] : ms[k][n] # i}

\* getInstancePointer: m_instance.reset(new QLoggerManager); return m_instance.data().
\* The manager held before, its map and the writers it owns are destroyed.
ResetInstance(t) ==
    /\ pc[t] = "gi_reset"
    /\ ~crashed
    /\ LET r == resetInstance(Registry)
       IN /\ SetRegistry(r)
          /\ writers' = [i \in DOMAIN writers \ unreferenced(writers, r.managers) |-> writers[i]]
          /\ frame' = [frame EXCEPT ![t].inst = r.m_instance]
    /\ bound' = NoBindings
    /\ pc' = [pc EXCEPT ![t] = AfterInstance(t)]
    /\ UNCHANGED <<allocated, envVars, last, mutex, crashed, calls, acquired, appends>>

Return(t) ==
    /\ pc' = [pc EXCEPT ![t] = "idle"]
    /\ frame' = [frame EXCEPT ![t] = NoCall]

\* add() and remove(), holding the mutex, on the manager getInstance() returned
Body(t) ==
    /\ pc[t] = "body"
    /\ frame[t].op \in {"add", "remove"}
    /\ ~crashed
    /\ frame[t].inst \in DOMAIN managers
    /\ LET f == frame[t]
           m == managers[f.inst]
           id == allocated + 1
           taken == addTest(m, f.name)
       IN IF f.op = "add"
          THEN /\ taken \/ allocated < MaxWriters
               /\ managers' = [managers EXCEPT ![f.inst] = add(m, f.name, id)]
               /\ writers' = IF taken THEN writers
                             ELSE [i \in DOMAIN writers \cup {id} |->
                                      IF i = id THEN QLoggerWriter(f.filePath, f.level)
                                      ELSE writers[i]]
               /\ allocated' = IF taken THEN allocated ELSE id
               /\ bound' = IF f.name \in DOMAIN bound THEN bound
                           ELSE [n \in DOMAIN bound \cup {f.name} |->
                                    IF n = f.name THEN [filePath |-> f.filePath, level |-> f.level]
                                    ELSE bound[n]]
          ELSE /\ managers' = [managers EXCEPT ![f.inst] = removeKey(m, f.name)]
               /\ writers' = release(writers, m, f.name)
               /\ bound' = [n \in DOMAIN bound \ {f.name} |-> bound[n]]
               /\ UNCHANGED allocated
    /\ mutex' = unlock(mutex)
    /\ Return(t)
    /\ UNCHANGED <<m_instance, constructed, envVars, last, crashed, calls, acquired, appends>>

\* logWriter() called directly, holding the mutex: return m_loggers.value(name).data()
Value(t) ==
    /\ pc[t] = "body"
    /\ frame[t].op = "logWriter"
    /\ ~crashed
    /\ frame[t].inst \in DOMAIN managers
    /\ managers' = [managers EXCEPT ![frame[t].inst] = mapAfterValue(@, frame[t].name)]
    /\ mutex' = unlock(mutex)
    /\ Return(t)
    /\ UNCHANGED <<m_instance, constructed, bound, sinkVars, envVars, last, crashed,
                   calls, acquired, appends>>

\* privateLog: manager.logWriter(name), which locks the mutex again; without a
\* writer the call returns
Lookup(t) ==
    /\ pc[t] = "lookup"
    /\ ~crashed
    /\ canLock(mutex, t)
    /\ frame[t].inst \in DOMAIN managers
    /\ LET m == managers[frame[t].inst]
           id == value(m, frame[t].name)
       IN /\ managers' = [managers EXCEPT ![frame[t].inst] = mapAfterValue(m, frame[t].name)]
          /\ IF id = 0
             THEN /\ mutex' = unlock(mutex)
                  /\ Return(t)
             ELSE /\ frame' = [frame EXCEPT ![t].ptr = id]
                  /\ pc' = [pc EXCEPT ![t] = "write1"]
                  /\ UNCHANGED mutex
    /\ UNCHANGED <<m_instance, constructed, bound, sinkVars, envVars, last, crashed,
                   calls, acquired, appends>>

\* write(): the level test, the path test and checkFileSizeLimit
Write1(t) ==
    /\ pc[t] = "write1"
    /\ ~crashed
    /\ frame[t].ptr \in DOMAIN writers
    /\ LET w == writers[frame[t].ptr]
       IN IF reachesFile(w, frame[t].level)
          THEN /\ files' = checkFileSizeLimit(w, files, now)
               /\ pc' = [pc EXCEPT ![t] = "write2"]
               /\ UNCHANGED <<frame, mutex>>
          ELSE /\ mutex' = unlock(mutex)
               /\ Return(t)
               /\ UNCHANGED files
    /\ UNCHANGED <<regVars, sinkVars, now, writes, last, crashed, calls, acquired, appends>>

\* write(): the line, open, append, close; then privateLog returns
Write2(t) ==
    /\ pc[t] = "write2"
    /\ ~crashed
    /\ frame[t].ptr \in DOMAIN writers
    /\ LET w == writers[frame[t].ptr]
           line == formatLog(w, frame[t].message, frame[t].level, now)
       IN /\ files' = appendLog(w, files, line)
          /\ appends' = IF openSucceeds(files, w.m_filePath)
                        THEN Append(appends, [call |-> frame[t].call, path |-> w.m_filePath,
                                              line |-> line])
                        ELSE appends
    /\ writes' = writes + 1
    /\ mutex' = unlock(mutex)
    /\ Return(t)
    /\ UNCHANGED <<regVars, sinkVars, now, last, crashed, calls, acquired>>

\* the thread is about to use a manager or a writer that was destroyed
Dangling(t) ==
    \/ pc[t] \in {"body", "lookup"} /\ frame[t].inst \notin DOMAIN managers
    \/ pc[t] \in {"write1", "write2"} /\ frame[t].ptr \notin DOMAIN writers

\* use of a destroyed object is undefined: the process dies, or the call reads
\* freed memory and returns without a visible effect
UseAfterFree(t) ==
    /\ ~crashed
    /\ Dangling(t)
    /\ pc[t] = "lookup" => canLock(mutex, t)
    /\ \/ /\ crashed' = TRUE
          /\ UNCHANGED <<pc, frame, mutex>>
       \/ /\ mutex' = unlock(mutex)
          /\ Return(t)
          /\ UNCHANGED crashed
    /\ UNCHANGED <<regVars, sinkVars, envVars, last, calls, acquired, appends>>

ConcNext ==
    \E t \in Threads :
        \/ IssueLog(t)
        \/ IssueAdd(t)
        \/ IssueRemove(t)
        \/ IssueLogWriter(t)
        \/ Lock(t)
        \/ GetInstance(t)
        \/ ResetInstance(t)
        \/ Body(t)
        \/ Value(t)
        \/ Lookup(t)
        \/ Write1(t)
        \/ Write2(t)
        \/ UseAfterFree(t)

SpecConc == ConcInit /\ [][ConcNext]_vars

(***************************************************************************)
(* SpecLog: the channels are registered and the threads only log.          *)
(***************************************************************************)
LogInit ==
    /\ Registered
    /\ files = NoFiles
    /\ now = 0
    /\ writes = 0
    /\ last = [op |-> "init"]
    /\ ThreadsIdle

IssueLogOnly(t) == IssueLogUpTo(t, MaxLogCalls)

LogNext ==
    \E t \in Threads :
        \/ IssueLogOnly(t)
        \/ Lock(t)
        \/ GetInstance(t)
        \/ Lookup(t)
        \/ Write1(t)
        \/ Write2(t)

SpecLog == LogInit /\ [][LogNext]_vars

(***************************************************************************)
(* SpecHeld: the manager exists and the channels are registered; the       *)
(* threads log, register, unregister and look up.                          *)
(***************************************************************************)
HeldInit ==
    /\ Registered
    /\ files = NoFiles
    /\ now = 0
    /\ writes = 0
    /\ last = [op |-> "init"]
    /\ ThreadsIdle

\* QLogger::log(name, message, level)
IssueHeldLog(t) ==
    /\ CanIssue(t, RegOps \cup {"log"}, MaxHeldCalls)
    /\ \E name \in Names, message \in RegMessages :
          Issue(t, [op |-> "log", call |-> Len(calls) + 1, name |-> name, message |-> message,
                    level |-> InfoLevel, filePath |-> EmptyPath, inst |-> 0, ptr |-> 0], "lock")
    /\ UNCHANGED <<regVars, sinkVars, envVars, last, mutex, crashed, acquired, appends>>

\* QLoggerManager::getInstance().add / remove / logWriter
IssueHeldCall(t) ==
    /\ CanIssue(t, RegOps \cup {"log"}, MaxHeldCalls)
    /\ \E op \in RegOps, name \in Names :
          Issue(t, [op |-> op, call |-> Len(calls) + 1, name |-> name, message |-> "",
                    level |-> DebugLevel,
                    filePath |-> IF op = "add" THEN PathOf(name) ELSE EmptyPath,
                    inst |-> 0, ptr |-> 0], "gi")
    /\ UNCHANGED <<regVars, sinkVars, envVars, last, mutex, crashed, acquired, appends>>

HeldNext ==
    \E t \in Threads :
        \/ IssueHeldLog(t)
        \/ IssueHeldCall(t)
        \/ Lock(t)
        \/ GetInstance(t)
        \/ Body(t)
        \/ Value(t)
        \/ Lookup(t)
        \/ Write1(t)
        \/ Write2(t)

SpecHeld == HeldInit /\ [][HeldNext]_vars

(***************************************************************************)
(* SpecFirstUse: no QLoggerManager exists yet; the threads register        *)
(* channels and log on them.                                               *)
(***************************************************************************)
FirstUseInit ==
    /\ Fresh
    /\ files = NoFiles
    /\ now = 0
    /\ writes = 0
    /\ last = [op |-> "init"]
    /\ ThreadsIdle

\* QLoggerManager::getInstance().add(filePath, name, level)
IssueFirstAdd(t) ==
    /\ CanIssue(t, {"add"}, MaxFirstAdds)
    /\ \E name \in Names :
          Issue(t, [op |-> "add", call |-> Len(calls) + 1, name |-> name, message |-> "",
                    level |-> DebugLevel, filePath |-> PathOf(name), inst |-> 0, ptr |-> 0], "gi")
    /\ UNCHANGED <<regVars, sinkVars, envVars, last, mutex, crashed, acquired, appends>>

IssueFirstLog(t) == IssueLogUpTo(t, MaxFirstLogs)

FirstUseNext ==
    \E t \in Threads :
        \/ IssueFirstAdd(t)
        \/ IssueFirstLog(t)
        \/ Lock(t)
        \/ GetInstance(t)
        \/ ResetInstance(t)
        \/ Body(t)
        \/ Lookup(t)
        \/ Write1(t)
        \/ Write2(t)
        \/ UseAfterFree(t)

SpecFirstUse == FirstUseInit /\ [][FirstUseNext]_vars

(***************************************************************************)
(* Vocabulary of the properties                                            *)
(***************************************************************************)
RECURSIVE CountLines(_, _)
CountLines(f, paths) ==
    IF paths = {} THEN 0
    ELSE LET p == CHOOSE q \in paths : TRUE
         IN Len(f[p].lines) + CountLines(f, paths \ {p})

\* the number of complete lines in all files
TotalLines(f) == CountLines(f, DOMAIN f)

LinesAt(f, path) == IF path \in DOMAIN f THEN f[path].lines ELSE <<>>
LastLine(f, path) == LinesAt(f, path)[Len(LinesAt(f, path))]

\* the last operation was a write() on a sink with a path that can be opened
WroteOpenable ==
    /\ last.op = "write"
    /\ last.w.m_filePath # EmptyPath
    /\ last.w.m_filePath.dir \in ExistingDirs

\* the last operation was a write() that appended a line
Appended ==
    /\ WroteOpenable
    /\ last.level >= last.w.m_level

\* the canonical names of the levels (spec, section 3)
LevelName ==
    [l \in LevelValues |->
        IF l = TraceLevel THEN "trace" ELSE IF l = DebugLevel THEN "debug"
        ELSE IF l = InfoLevel THEN "info" ELSE IF l = WarnLevel THEN "warning"
        ELSE IF l = ErrorLevel THEN "error" ELSE IF l = FatalLevel THEN "fatal"
        ELSE "INVALID"]

\* every rendering of a clock value the model can produce
Timestamps == {toString(currentDateTime(t), fmt) : t \in 0..MaxClock, fmt \in FormatValues}

C8_LineFormat ==
    Appended =>
        LET line == LastLine(files, last.w.m_filePath)
            body == LevelName[last.level] \o " : " \o last.message
        IN /\ files[last.w.m_filePath].tail = ""
           /\ IF last.w.m_saveDatetime
              THEN \E ts \in Timestamps : line = ts \o " : " \o body
              ELSE line = body

\* an accepted write above the minimum level, without timestamp
C8_Witness ==
    /\ Appended
    /\ last.level > last.w.m_level
    /\ ~last.w.m_saveDatetime
    /\ LastLine(files, last.w.m_filePath) = "warning : x"

(***************************************************************************)
(* C9: the timestamp of a line is rendered in the sink's current           *)
(* m_datetimeFormat.                                                       *)
(***************************************************************************)
C9_TimestampInCurrentFormat ==
    (Appended /\ last.w.m_saveDatetime) =>
        LastLine(files, last.w.m_filePath) =
            toString(currentDateTime(last.t2), last.w.m_datetimeFormat)
                \o " : " \o LevelName[last.level] \o " : " \o last.message

(***************************************************************************)
(* Rotation, as the properties see it                                      *)
(***************************************************************************)
\* the last operation was an accepted write() on an openable path that began
\* with the file at or over a positive size limit
WroteOverLimit ==
    /\ Appended
    /\ last.w.m_fileSizeLimit > 0
    /\ last.w.m_filePath \in DOMAIN last.pre
    /\ LinesSize(last.pre[last.w.m_filePath].lines) >= last.w.m_fileSizeLimit

\* the files that write() made appear, other than the log file itself
NewFiles == (DOMAIN files \ DOMAIN last.pre) \ {last.w.m_filePath}

\* the rotation stamp of the last write
RotationStamp == toString(currentDateTime(last.t1), ROTATE_FORMAT)

\* the file name split at its first dot and at its last dot
UpToFirstDot(path) == path.name[1]
AfterFirstDot(path) == Join(Tail(path.name))
UpToLastDot(path) ==
    IF Len(path.name) > 1 THEN Join(SubSeq(path.name, 1, Len(path.name) - 1)) ELSE Join(path.name)
AfterLastDot(path) == IF Len(path.name) > 1 THEN path.name[Len(path.name)] ELSE ""

\* the rotated name a file of that name would take, as a string
NameAtFirstDot(path) == UpToFirstDot(path) \o "_" \o RotationStamp \o "." \o AfterFirstDot(path)
NameAtLastDot(path) == UpToLastDot(path) \o "_" \o RotationStamp \o "." \o AfterLastDot(path)

\* some file other than the log file is named so, in the log file's directory
Holds(f, dir, name, content) ==
    \E q \in DOMAIN f : q.dir = dir /\ fileName(q) = name /\ f[q] = content

Taken(f, dir, name) == \E q \in DOMAIN f : q.dir = dir /\ fileName(q) = name

(***************************************************************************)
(* C4 as stated: an accepted write that starts with the file at or over    *)
(* the limit N > 0 renames the file to the timestamped name, and leaves at *)
(* the original path only the line it wrote.                               *)
(***************************************************************************)
C4_AlwaysRotates ==
    WroteOverLimit =>
        /\ NewFiles # {}
        /\ Len(files[last.w.m_filePath].lines) = 1

(***************************************************************************)
(* C4 amended: such a write renames the file to the timestamped name       *)
(* unless a file of that name exists already (an earlier rotation in the   *)
(* same second); after a rename the original path holds only the line      *)
(* written by the call, and after a failed rename the line is appended to  *)
(* the old, over-limit file, which keeps its earlier lines.                *)
(***************************************************************************)
C4_RotatesUnlessNameTaken ==
    WroteOverLimit =>
        LET path == last.w.m_filePath
            name == NameAtFirstDot(path)
            line == LastLine(files, path)
        IN IF Taken(last.pre, path.dir, name)
           THEN /\ files[path].lines = Append(last.pre[path].lines, line)
                /\ NewFiles = {}
           ELSE /\ Holds(files, path.dir, name, last.pre[path])
                /\ files[path].lines = <<line>>

\* a write rotated the over-limit file and started the log file afresh
C4_Witness ==
    /\ WroteOverLimit
    /\ NewFiles # {}
    /\ Len(last.pre[last.w.m_filePath].lines) = 2
    /\ Len(files[last.w.m_filePath].lines) = 1

(***************************************************************************)
(* C10 as stated: a rotated file is named <basename>_<ddMMyyyyhhmmss>.     *)
(* <suffix> in the same directory, the name being split at its LAST dot    *)
(* (app.2024.log rotates to app.2024_<ts>.log).                            *)
(***************************************************************************)
C10_SplitAtLastDot ==
    (last.op = "write" /\ NewFiles # {}) =>
        \A q \in NewFiles :
            /\ q.dir = last.w.m_filePath.dir
            /\ fileName(q) = NameAtLastDot(last.w.m_filePath)

(***************************************************************************)
(* C10 amended: the name is split at its FIRST dot: basename is the text   *)
(* before the first dot and suffix all the text after it, so app.2024.log  *)
(* rotates to app_<ts>.2024.log and app.log to app_<ts>.log.               *)
(***************************************************************************)
C10_SplitAtFirstDot ==
    (last.op = "write" /\ NewFiles # {}) =>
        \A q \in NewFiles :
            /\ q.dir = last.w.m_filePath.dir
            /\ fileName(q) = NameAtFirstDot(last.w.m_filePath)
            /\ files[q] = last.pre[last.w.m_filePath]

\* app.2024.log was rotated, after the clock had ticked
C10_Witness ==
    /\ last.op = "write"
    /\ last.w.m_filePath = DatedLog
    /\ \E q \in NewFiles : fileName(q) = "app_05012024134600.2024.log"

(***************************************************************************)
(* The registry, as the properties see it                                  *)
(***************************************************************************)
\* the writer the current manager holds for name (0: none)
WriterOf(name) ==
    IF m_instance # 0 /\ name \in DOMAIN managers[m_instance] THEN managers[m_instance][name] ELSE 0

(***************************************************************************)
(* C2: duplicate registration never overwrites.  From the add() that bound *)
(* a name until its remove(), the name maps to one live sink that keeps    *)
(* the path and level of that first add(); an add() on a bound name        *)
(* changes neither the map nor any sink (its size limit included); a log() *)
(* on the name touches no file but the one of the first path (and the file *)
(* rotated away from it); no two names share a sink.                       *)
(***************************************************************************)
C2_NoOverwrite ==
    /\ \A n \in DOMAIN bound :
          /\ WriterOf(n) \in DOMAIN writers
          /\ writers[WriterOf(n)].m_filePath = bound[n].filePath
          /\ writers[WriterOf(n)].m_level = bound[n].level
    /\ \A n1, n2 \in DOMAIN bound : n1 # n2 => WriterOf(n1) # WriterOf(n2)
    /\ (last.op = "add" /\ last.taken) =>
          /\ WriterOf(last.name) = last.loggers[last.name]
          /\ writers = last.writers
    /\ (last.op = "log" /\ last.name \in DOMAIN bound) =>
          /\ \A p \in DOMAIN last.pre :
                p # bound[last.name].filePath => (p \in DOMAIN files /\ files[p] = last.pre[p])
          /\ \A p \in DOMAIN files \ DOMAIN last.pre :
                \/ p = bound[last.name].filePath
                \/ files[p] = last.pre[bound[last.name].filePath]
          /\ last.level >= bound[last.name].level =>
                /\ TotalLines(files) = TotalLines(last.pre) + 1
                /\ Len(LinesAt(files, bound[last.name].filePath)) >= 1

\* a second add() with another path and level on a name whose limit was set
C2_Witness ==
    /\ last.op = "add"
    /\ last.taken
    /\ last.filePath # bound[last.name].filePath
    /\ last.level # bound[last.name].level
    /\ writers[WriterOf(last.name)].m_fileSizeLimit = 10
    /\ writers[WriterOf(last.name)].m_filePath = AppLog

(***************************************************************************)
(* C7: log() and setLimitSize() on a name that is not registered write and *)
(* rename no file, change no sink, and leave the name -> sink map as it    *)
(* was, without an entry for the name.                                     *)
(***************************************************************************)
C7_UnknownChannelNoOp ==
    (last.op \in {"log", "setLimitSize"} /\ last.name \notin DOMAIN bound) =>
        /\ files = last.pre
        /\ writers = last.writers
        /\ m_instance # 0
        /\ managers[m_instance] = last.loggers
        /\ last.name \notin DOMAIN managers[m_instance]

\* log() on an unregistered name while another name is registered
C7_Witness ==
    /\ last.op = "log"
    /\ last.name \notin DOMAIN bound
    /\ DOMAIN bound # {}
    /\ last.id = 0
    /\ files = last.pre

(***************************************************************************)
(* The threads, as the properties see them                                 *)
(***************************************************************************)
AllReturned == \A t \in Threads : pc[t] = "idle"

CallsOf(t) == {i \in 1..Len(calls) : calls[i].thread = t}
CallsOn(name) == {i \in 1..Len(calls) : calls[i].name = name}

\* no two threads log on the same channel
DistinctChannels ==
    \A i, j \in 1..Len(calls) : calls[i].thread # calls[j].thread => calls[i].name # calls[j].name

\* the complete lines a log() of SpecLog can produce
CompleteLines ==
    {ts \o " : info : " \o m : ts \in {toString(currentDateTime(0), DATE_FORMAT)}, m \in RegMessages}

\* the manager the thread got from getInstance() (0: none yet)
InstanceOf(t) == IF pc[t] = "idle" THEN 0 ELSE frame[t].inst

Position(seq, x) == CHOOSE k \in 1..Len(seq) : seq[k] = x

\* the lines appended to path, in the order of their appends
AppendedTo(path) ==
    LET on == SelectSeq(appends, LAMBDA a : a.path = path)
    IN [k \in 1..Len(on) |-> on[k].line]

(***************************************************************************)
(* C3: construction of the registry is race-free: whatever the             *)
(* interleaving of the first calls, one QLoggerManager is constructed and  *)
(* every caller holds that one.                                            *)
(***************************************************************************)
C3_OneRegistry ==
    /\ constructed <= 1
    /\ \A t \in Threads : InstanceOf(t) # 0 => InstanceOf(t) = m_instance

(***************************************************************************)
(* C5: threads logging accepted messages on distinct registered channels   *)
(* (distinct files): once all calls have returned the files hold one line  *)
(* per call, each file the lines of its channel, and every line is a       *)
(* complete message line.                                                  *)
(***************************************************************************)
C5_ChannelIsolation ==
    (AllReturned /\ DistinctChannels) =>
        /\ TotalLines(files) = Len(calls)
        /\ \A n \in Names : Len(LinesAt(files, PathOf(n))) = Cardinality(CallsOn(n))
        /\ \A p \in DOMAIN files :
              /\ files[p].tail = ""
              /\ \A k \in 1..Len(files[p].lines) : files[p].lines[k] \in CompleteLines

\* two threads, two calls each, each thread on its own channel
C5_Witness ==
    /\ AllReturned
    /\ DistinctChannels
    /\ \A t \in Threads : Cardinality(CallsOf(t)) = 2
    /\ TotalLines(files) = 4
    /\ DOMAIN files = {AppLog, DatedLog}

(***************************************************************************)
(* C6 as stated: lines are appended in the order in which the log() calls  *)
(* were issued, whatever their threads and channels.                       *)
(***************************************************************************)
C6_IssueOrder ==
    \A i, j \in 1..Len(appends) : i < j => appends[i].call < appends[j].call

(***************************************************************************)
(* C6 amended: lines are appended in the order in which the log() calls    *)
(* took the mutex; that is the order of issue for two calls of one thread, *)
(* while two calls issued by different threads before either took the      *)
(* mutex may be appended in either order.  Without rotation, a file holds  *)
(* the lines of its channel in the order of their appends.                 *)
(***************************************************************************)
C6_LockOrder ==
    /\ \A i, j \in 1..Len(appends) :
          i < j =>
            /\ Position(acquired, appends[i].call) < Position(acquired, appends[j].call)
            /\ calls[appends[i].call].thread = calls[appends[j].call].thread
                  => appends[i].call < appends[j].call
    /\ \A p \in DOMAIN files : files[p].lines = AppendedTo(p)
    /\ \A i \in 1..Len(appends) : appends[i].path \in DOMAIN files

\* the call issued second took the mutex first and its line is the first of the file
C6_Witness ==
    /\ Len(appends) >= 2
    /\ appends[1].call > appends[2].call
    /\ appends[1].path = appends[2].path
    /\ Len(files[appends[1].path].lines) >= 2

(***************************************************************************)
(* The mutex, as the properties see it                                     *)
(***************************************************************************)
\* the thread is inside QLoggerWriter::write, called by privateLog
InWrite(t) == pc[t] \in {"write1", "write2"}

\* the thread is inside privateLog, past its QMutexLocker
InLog(t) == frame[t].op = "log" /\ pc[t] \in {"gi", "gi_reset", "lookup", "write1", "write2"}

\* the thread is inside add(), remove() or logWriter(), past its QMutexLocker
InBody(t) == pc[t] = "body"

Pending(t) == pc[t] # "idle"

\* the thread's call can take its next step
CanStep(t) ==
    /\ ~crashed
    /\ pc[t] \in {"lock", "lookup"} => (mutex.owner = "none" \/ mutex.owner = t)

(***************************************************************************)
(* C11: mutual exclusion across channels.  At most one thread is inside a  *)
(* write() started by log(), whatever the channels and files; while a      *)
(* thread is inside privateLog, from its lock to its return, no other      *)
(* thread is inside privateLog or inside add(), remove() or logWriter();   *)
(* a thread inside any of them owns QLoggerManager::mutex.                 *)
(***************************************************************************)
C11_MutualExclusion ==
    /\ Cardinality({t \in Threads : InWrite(t)}) <= 1
    /\ \A t, u \in Threads : (t # u /\ InLog(t)) => (~InLog(u) /\ ~InBody(u))
    /\ \A t \in Threads : (InLog(t) \/ InBody(t)) => mutex.owner = t

\* one thread is appending on a channel while the other waits to log on another
C11_Witness ==
    \E t, u \in Threads :
        /\ pc[t] = "write2"
        /\ pc[u] = "lock"
        /\ frame[u].op = "log"
        /\ frame[u].name # frame[t].name
        /\ mutex.owner = t

(***************************************************************************)
(* C13: the mutex is reentrant and always released.  A thread that has     *)
(* returned does not own the mutex; a thread inside privateLog re-locks    *)
(* it in logWriter() without blocking; and every call returns: as long as  *)
(* a call is pending, some pending call can take its next step.            *)
(***************************************************************************)
C13_ReentrantAndReleased ==
    /\ \A t \in Threads : ~Pending(t) => mutex.owner # t
    /\ AllReturned => mutex = Unlocked
    /\ \A t \in Threads : (pc[t] = "lookup" /\ ~crashed) => CanStep(t)
    /\ (\E t \in Threads : Pending(t)) => (\E t \in Threads : Pending(t) /\ CanStep(t))

(***************************************************************************)
(* C14: resolve-then-write is atomic with respect to the registry.  At     *)
(* every step of the write() that log(name) performs, the sink it resolved *)
(* is alive and is the sink registered under name.                         *)
(***************************************************************************)
C14_ResolvedSinkRegistered ==
    \A t \in Threads :
        InWrite(t) =>
            /\ frame[t].ptr \in DOMAIN writers
            /\ WriterOf(frame[t].name) = frame[t].ptr

(***************************************************************************)
(* C12: write failures are absorbed and drop the message.  An accepted     *)
(* write() on a sink with an empty path renames nothing, creates no file   *)
(* and appends nothing; an accepted write() whose file cannot be opened    *)
(* appends nothing and creates no file; either way the call returns, the   *)
(* sink keeps its settings and no registry comes into being.               *)
(***************************************************************************)
C12_FailuresAbsorbed ==
    (last.op = "write" /\ ~(last.level < last.w.m_level)) =>
        /\ last.w.m_filePath = EmptyPath => files = last.pre
        /\ (last.w.m_filePath # EmptyPath /\ last.w.m_filePath.dir \notin ExistingDirs) =>
              /\ TotalLines(files) = TotalLines(last.pre)
              /\ \A p \in DOMAIN files : files[p].tail = ""
              /\ last.w.m_filePath \notin DOMAIN files
              /\ DOMAIN files = DOMAIN last.pre
        /\ (last.w.m_filePath = EmptyPath \/ last.w.m_filePath.dir \notin ExistingDirs) =>
              /\ writers[last.id] = last.w
              /\ m_instance = 0 /\ managers = NoManagers
              /\ ~crashed

\* an accepted write on a path that cannot be opened, with a size limit set and
\* the file of an earlier run in the log directory
C12_Witness ==
    /\ last.op = "write"
    /\ last.level >= last.w.m_level
    /\ last.w.m_filePath = LostLog
    /\ last.w.m_fileSizeLimit = 10
    /\ files = OldRun
    /\ files = last.pre

(***************************************************************************)
(* Rotation over a run, as the properties see it                           *)
(***************************************************************************)
\* the rotation check of the last write found the limit reached
Due ==
    /\ last.w.m_fileSizeLimit > 0
    /\ size(last.pre, last.w.m_filePath) >= last.w.m_fileSizeLimit

\* the rename of the last write could not succeed: the name was taken
NameTaken == Taken(last.pre, last.w.m_filePath.dir, NameAtFirstDot(last.w.m_filePath))

\* the bytes the last write appended: its line and the newline
WrittenBytes == Len(LastLine(files, last.w.m_filePath)) + 1

AllLinesOf(f) == UNION {{f[p].lines[k] : k \in 1..Len(f[p].lines)} : p \in DOMAIN f}

RECURSIVE OccurrencesIn(_, _, _)
OccurrencesIn(f, paths, line) ==
    IF paths = {} THEN 0
    ELSE LET p == CHOOSE q \in paths : TRUE
         IN Cardinality({k \in 1..Len(f[p].lines) : f[p].lines[k] = line})
            + OccurrencesIn(f, paths \ {p}, line)

\* how many times the line stands in the files
Occurrences(f, line) == OccurrencesIn(f, DOMAIN f, line)

\* the log directory was empty when the sink was constructed
StartedEmpty == "error : x" \notin AllLinesOf(files)

(***************************************************************************)
(* C15: rotation is only triggered by the threshold.  An accepted write    *)
(* renames nothing when the limit is <= 0, when the file does not exist or *)
(* when its size is below the limit: the file keeps its lines and gets the *)
(* new one.  When the limit is > 0 and the size >= the limit (equal        *)
(* included) the file is renamed, provided the new name is free.  At most  *)
(* one file is renamed per write.                                          *)
(***************************************************************************)
C15_RotationOnlyAtThreshold ==
    Appended =>
        LET path == last.w.m_filePath
        IN /\ Cardinality(NewFiles) <= 1
           /\ ~Due =>
                 /\ NewFiles = {}
                 /\ DOMAIN files = DOMAIN last.pre \cup {path}
                 /\ files[path].lines = Append(LinesAt(last.pre, path), LastLine(files, path))
           /\ (Due /\ ~NameTaken) =>
                 /\ NewFiles # {}
                 /\ Holds(files, path.dir, NameAtFirstDot(path), last.pre[path])

\* a file whose size equals the limit was rotated
C15_Witness ==
    /\ Appended
    /\ last.w.m_fileSizeLimit = 10
    /\ size(last.pre, last.w.m_filePath) = 10
    /\ Cardinality(NewFiles) = 1
    /\ Len(files[last.w.m_filePath].lines) = 1

(***************************************************************************)
(* C16: a filtered-out write has no effect.  write(message, L) with L      *)
(* below the sink's minimum level leaves every file as it was (nothing     *)
(* appended, created or renamed, also when the file is at or over the size *)
(* limit) and leaves the sink's settings as they were.                     *)
(***************************************************************************)
C16_FilteredNoEffect ==
    (last.op = "write" /\ last.level < last.w.m_level) =>
        /\ files = last.pre
        /\ writers[last.id] = last.w

\* a filtered-out write on a sink whose file had reached its limit
C16_Witness ==
    /\ last.op = "write"
    /\ last.level < last.w.m_level
    /\ Due
    /\ ~NameTaken
    /\ files = last.pre

(***************************************************************************)
(* C17: a failed rotation is ignored and the write proceeds.  When the     *)
(* rotation check finds the limit reached and the rename fails, the write  *)
(* appends its line to the file at the original path, which keeps its      *)
(* earlier lines; no other file changes.                                   *)
(***************************************************************************)
C17_FailedRenameIgnored ==
    (WroteOverLimit /\ NameTaken) =>
        LET path == last.w.m_filePath
        IN /\ files[path].lines =
                 Append(last.pre[path].lines, formatLog(last.w, last.message, last.level, last.t2))
           /\ files[path].tail = ""
           /\ DOMAIN files = DOMAIN last.pre
           /\ \A p \in DOMAIN files \ {path} : files[p] = last.pre[p]

\* the rename failed and the over-limit file got one more line
C17_Witness ==
    /\ WroteOverLimit
    /\ NameTaken
    /\ Len(files[last.w.m_filePath].lines) = Len(last.pre[last.w.m_filePath].lines) + 1
    /\ last.message = "yy"

(***************************************************************************)
(* C19: no accepted line is lost or duplicated by rotation.  Every write   *)
(* leaves each line that stood in the files before it as many times as it  *)
(* stood there, adds its own line once when it is accepted, and leaves     *)
(* every file other than the one at the sink's path (the rotated files     *)
(* among them) in place with its content.                                  *)
(***************************************************************************)
C19_NoLineLost ==
    last.op = "write" =>
        LET path == last.w.m_filePath
            wrote == last.level >= last.w.m_level
            line == formatLog(last.w, last.message, last.level, last.t2)
        IN /\ \A l \in AllLinesOf(last.pre) \cup AllLinesOf(files) \cup {line} :
                 Occurrences(files, l) =
                     Occurrences(last.pre, l) + (IF wrote /\ l = line THEN 1 ELSE 0)
           /\ \A p \in DOMAIN last.pre \ {path} : p \in DOMAIN files /\ files[p] = last.pre[p]
           /\ \A p \in DOMAIN files : files[p].tail = ""

\* two rotations have happened, and a write in between whose rotation failed
C19_Witness ==
    /\ last.op = "write"
    /\ Cardinality(DOMAIN files) = 3
    /\ TotalLines(files) = 4
    /\ \E p \in DOMAIN files : Len(files[p].lines) = 2

C18_RemoveExactlyName ==
    /\ last.op = "remove" =>
          /\ m_instance # 0
          /\ managers[m_instance] = [n \in DOMAIN last.loggers \ {last.name} |-> last.loggers[n]]
          /\ WriterOf(last.name) = 0
          /\ writers = [i \in DOMAIN last.writers \ {value(last.loggers, last.name)} |->
                           last.writers[i]]
          /\ \A n \in DOMAIN last.loggers \ {last.name} : last.loggers[n] \in DOMAIN writers
          /\ last.name \notin DOMAIN last.loggers =>
                (managers[m_instance] = last.loggers /\ writers = last.writers)
          /\ files = last.pre
    /\ \A n \in Names \ DOMAIN bound : WriterOf(n) = 0
    /\ (last.op = "logWriter" /\ last.name \notin DOMAIN bound) => last.id = 0
    /\ (last.op = "log" /\ last.name \notin DOMAIN bound) => files = last.pre
    /\ (last.op = "add" /\ ~last.taken) =>
          /\ WriterOf(last.name) \notin DOMAIN last.writers
          /\ WriterOf(last.name) \in DOMAIN writers
          /\ writers[WriterOf(last.name)] =
                [m_filePath |-> last.filePath, m_level |-> last.level, m_fileSizeLimit |-> 0,
                 m_saveDatetime |-> TRUE, m_datetimeFormat |-> DATE_FORMAT]

\* a channel whose size limit had been set was removed while another stayed
C18_Witness ==
    /\ last.op = "remove"
    /\ last.name \in DOMAIN last.loggers
    /\ last.writers[last.loggers[last.name]].m_fileSizeLimit = 10
    /\ Cardinality(DOMAIN last.writers) = 2
    /\ Cardinality(DOMAIN writers) = 1
    /\ DOMAIN bound = Names \ {last.name}

====
